---- MODULE Spec2Model ----
(***************************************************************************)
(* Model of the sanctions matching and risk aggregation engine of          *)
(* legal-ai-agents/agents/compliance_checker_agent.py                      *)
(* (ComplianceCheckerAgent) and of BaseAgent's request validation.         *)
(*                                                                         *)
(* Strings are sequences of one-character strings, so that lower-casing,   *)
(* substring tests and the character-overlap similarity are computed as    *)
(* the code computes them.  A similarity score c / m is the record         *)
(* [num |-> c, den |-> m]; the comparisons with 0.8 and 0.9 are done by    *)
(* cross multiplication, which agrees with the float comparison for every  *)
(* string shorter than 2^50 characters (IEEE division is correctly         *)
(* rounded and 0.8, 0.9 are the doubles nearest to 4/5 and 9/10).          *)
(***************************************************************************)
EXTENDS Integers, Sequences, FiniteSets, TLC

VARIABLES
    fn,                 \* direct invocation of one method: inputs, then output
    sanctions_cache,    \* self.sanctions_cache : list name -> cached data
    cache_expiry,       \* self.cache_expiry    : list name -> timestamp
    now,                \* datetime.now().timestamp()
    request,            \* the request last handed to process_request
    response,           \* the AgentResponse process_request returned for it
    handler_ret,        \* the dict the dispatched handler returned
    screenings,         \* the screening_results dicts built while serving it
    db,                 \* sanctions.db, the connection writing it, the last read
    manager             \* SanctionsDataManager: clock, last_update_check, last results

vars == <<fn, sanctions_cache, cache_expiry, now, request, response,
          handler_ret, screenings, db, manager>>

(***************************************************************************)
(* Bounds of the model                                                     *)
(***************************************************************************)
MaxRunA == 10       \* longest run of "a" in a generated target
MaxRunB == 1        \* longest run of "b" after it
MaxEntities == 2    \* entities in a sanctions list handed to the matcher
MaxAffiliated == 1  \* affiliated entities in a request
TickSeconds == 1800 \* seconds the clock advances per Tick
MaxTicks == 2       \* the clock stops after this many ticks
MaxActions == 3     \* enforcement actions in a list handed to the risk rule
MaxBatch == 2       \* entities in one list handed to _store_entities
MaxSimLen == 3      \* longest string handed to _calculate_similarity directly
ClockHours == 6     \* hours the manager's clock advances per step
MaxClockSteps == 5  \* the manager's clock stops after this many steps

(***************************************************************************)
(* Strings                                                                 *)
(***************************************************************************)
UpperLetters == <<"A","B","C","D","E","F","G","H","I","J","K","L","M",
                  "N","O","P","Q","R","S","T","U","V","W","X","Y","Z">>
LowerLetters == <<"a","b","c","d","e","f","g","h","i","j","k","l","m",
                  "n","o","p","q","r","s","t","u","v","w","x","y","z">>

\* the characters of the strings of the model
Chars == {UpperLetters[i] : i \in 1..26} \cup {LowerLetters[i] : i \in 1..26}
         \cup {" ", ".", "!", "#"}

\* str.lower() on one ASCII character
LowerChar(c) ==
    IF \E i \in 1..26 : UpperLetters[i] = c
    THEN LowerLetters[CHOOSE i \in 1..26 : UpperLetters[i] = c]
    ELSE c

\* LowerChar, tabulated
LowerMap == [c \in Chars |-> LowerChar(c)]

\* str.lower()
Lower(s) == [i \in 1..Len(s) |-> LowerMap[s[i]]]

\* Python's "a in b" on strings: a occurs in b as a contiguous substring
\* (the empty string occurs in every string)
IsSubstring(a, b) ==
    \E i \in 1..(Len(b) - Len(a) + 1) :
        \A j \in 1..Len(a) : b[i + j - 1] = a[j]

\* str.strip() for the blank character; the matcher never calls it
Strip(s) ==
    LET nb == {i \in 1..Len(s) : s[i] # " "}
    IN  IF nb = {} THEN <<>>
        ELSE SubSeq(s, CHOOSE i \in nb : \A j \in nb : i <= j,
                       CHOOSE i \in nb : \A j \in nb : i >= j)

Rep(c, n) == [i \in 1..n |-> c]


\* a Python str literal, written out character by character
SampleName == <<"S","a","m","p","l","e"," ","S","a","n","c","t","i","o","n",
                "e","d"," ","E","n","t","i","t","y">>
AnotherName == <<"A","n","o","t","h","e","r"," ","S","a","n","c","t","i","o",
                 "n","e","d"," ","E","n","t","i","t","y">>
TornadoCash == <<"t","o","r","n","a","d","o",".","c","a","s","h">>
BlenderIo == <<"b","l","e","n","d","e","r",".","i","o">>
MixerMoney == <<"m","i","x","e","r",".","m","o","n","e","y">>

(***************************************************************************)
(* Python dicts are functions from keys to values; {} is the empty one.    *)
(***************************************************************************)
EmptyDict == [k \in {} |-> 0]

\* dict.get(key, default)
DictGet(d, k, default) == IF k \in DOMAIN d THEN d[k] ELSE default

(***************************************************************************)
(* Name matching                                                           *)
(***************************************************************************)
\* sum(1 for c in str1 if c in str2), summed over the first n characters
RECURSIVE CommonChars(_, _, _)
CommonChars(str1, str2, n) ==
    IF n = 0 THEN 0
    ELSE CommonChars(str1, str2, n - 1)
         + (IF \E j \in 1..Len(str2) : str2[j] = str1[n] THEN 1 ELSE 0)

Max(a, b) == IF a >= b THEN a ELSE b

\* the float num / den
Score(n, d) == [num |-> n, den |-> d]

\* score > a / b, for a float score and the literal a / b
ScoreGT(s, a, b) == s.num * b > a * s.den


\* a faulty variant of _calculate_similarity: the characters the strings
\* share are counted once each (C26)
SimilarityOfDistinctChars(str1, str2) ==
    IF Len(str1) = 0 \/ Len(str2) = 0
    THEN Score(0, 1)
    ELSE Score(Cardinality({ str1[i] : i \in 1..Len(str1) }
                           \cap { str2[j] : j \in 1..Len(str2) }),
               Max(Len(str1), Len(str2)))

_calculate_similarity(str1, str2) ==
    IF Len(str1) = 0 \/ Len(str2) = 0
    THEN Score(0, 1)
    ELSE Score(CommonChars(str1, str2, Len(str1)), Max(Len(str1), Len(str2)))

SanctionsMatch(name, mtype, list, score, details, risk) ==
    [entity_name |-> name, match_type |-> mtype, sanctions_list |-> list,
     match_score |-> score, details |-> details, risk_level |-> risk]

\* faulty variants of MatchEntity: the candidate name is compared as stored
\* (C5), the similarity floor is inclusive (C6)
MatchEntityRawName(target_lower, entity, list_name) ==
    LET entity_name == entity.name
    IN  IF target_lower = entity_name
        THEN << SanctionsMatch(entity.name, "exact", list_name, Score(1, 1),
                               entity, "HIGH") >>
        ELSE IF IsSubstring(target_lower, entity_name)
                \/ IsSubstring(entity_name, target_lower)
        THEN LET similarity_score ==
                     _calculate_similarity(target_lower, entity_name)
             IN  IF ScoreGT(similarity_score, 8, 10)
                 THEN << SanctionsMatch(entity.name, "fuzzy", list_name,
                             similarity_score, entity,
                             IF ScoreGT(similarity_score, 9, 10)
                             THEN "MEDIUM" ELSE "LOW") >>
                 ELSE << >>
        ELSE << >>

MatchEntityInclusiveFloor(target_lower, entity, list_name) ==
    LET entity_name == Lower(entity.name)
    IN  IF target_lower = entity_name
        THEN << SanctionsMatch(entity.name, "exact", list_name, Score(1, 1),
                               entity, "HIGH") >>
        ELSE IF IsSubstring(target_lower, entity_name)
                \/ IsSubstring(entity_name, target_lower)
        THEN LET similarity_score ==
                     _calculate_similarity(target_lower, entity_name)
             IN  IF ~ ScoreGT(Score(8, 10), similarity_score.num,
                              similarity_score.den)
                 THEN << SanctionsMatch(entity.name, "fuzzy", list_name,
                             similarity_score, entity,
                             IF ScoreGT(similarity_score, 9, 10)
                             THEN "MEDIUM" ELSE "LOW") >>
                 ELSE << >>
        ELSE << >>

\* the body of the loop over sanctions_data['entities']: the matches one
\* entity adds, none or one
MatchEntity(target_lower, entity, list_name) ==
    LET entity_name == Lower(entity.name)
    IN  IF target_lower = entity_name
        THEN << SanctionsMatch(entity.name, "exact", list_name, Score(1, 1),
                               entity, "HIGH") >>
        ELSE IF IsSubstring(target_lower, entity_name)
                \/ IsSubstring(entity_name, target_lower)
        THEN LET similarity_score ==
                     _calculate_similarity(target_lower, entity_name)
             IN  IF ScoreGT(similarity_score, 8, 10)
                 THEN << SanctionsMatch(entity.name, "fuzzy", list_name,
                             similarity_score, entity,
                             IF ScoreGT(similarity_score, 9, 10)
                             THEN "MEDIUM" ELSE "LOW") >>
                 ELSE << >>
        ELSE << >>

RECURSIVE MatchLoop(_, _, _, _)
MatchLoop(target_lower, entities, list_name, n) ==
    IF n = 0 THEN << >>
    ELSE MatchLoop(target_lower, entities, list_name, n - 1)
         \o MatchEntity(target_lower, entities[n], list_name)

\* a faulty variant of TargetLower: the target is compared as given (C9)
TargetAsGiven(target) == target

\* target_lower = target.lower()
TargetLower(target) == Lower(target)

_match_against_sanctions_list(target, sanctions_data, list_name) ==
    LET entities == DictGet(sanctions_data, "entities", << >>)
    IN  MatchLoop(TargetLower(target), entities, list_name, Len(entities))

crypto_sanctions == << TornadoCash, BlenderIo, MixerMoney >>

RECURSIVE CryptoLoop(_, _)
CryptoLoop(target_lower, n) ==
    IF n = 0 THEN << >>
    ELSE CryptoLoop(target_lower, n - 1)
         \o (IF IsSubstring(crypto_sanctions[n], target_lower)
             THEN << SanctionsMatch(crypto_sanctions[n], "exact", "OFAC_CRYPTO",
                        Score(1, 1),
                        [service |-> crypto_sanctions[n],
                         type |-> "crypto_service"],
                        "HIGH") >>
             ELSE << >>)

_check_crypto_specific_sanctions(target) ==
    CryptoLoop(TargetLower(target), Len(crypto_sanctions))


(***************************************************************************)
(* Risk levels                                                             *)
(***************************************************************************)
_calculate_sanctions_risk_level(matches) ==
    IF Len(matches) = 0 THEN "LOW"
    ELSE IF \E i \in 1..Len(matches) : matches[i].risk_level = "HIGH"
    THEN "CRITICAL"
    ELSE IF \E i \in 1..Len(matches) : matches[i].risk_level = "MEDIUM"
    THEN "HIGH"
    ELSE "MEDIUM"

\* a faulty variant of _calculate_enforcement_risk_level: MEDIUM is tested
\* before HIGH (C17)
EnforcementMediumFirst(actions) ==
    IF Len(actions) = 0 THEN "LOW"
    ELSE IF \E i \in 1..Len(actions) : actions[i].severity = "MEDIUM"
    THEN "MEDIUM"
    ELSE IF \E i \in 1..Len(actions) : actions[i].severity = "HIGH"
    THEN "HIGH"
    ELSE "LOW"

_calculate_enforcement_risk_level(actions) ==
    IF Len(actions) = 0 THEN "LOW"
    ELSE IF \E i \in 1..Len(actions) : actions[i].severity = "HIGH"
    THEN "HIGH"
    ELSE IF \E i \in 1..Len(actions) : actions[i].severity = "MEDIUM"
    THEN "MEDIUM"
    ELSE "LOW"

\* the risk_factors list of _calculate_overall_risk_level
RiskFactors(compliance_results) ==
    << DictGet(DictGet(compliance_results, "sanctions_screening", EmptyDict),
               "risk_level", "LOW"),
       DictGet(DictGet(compliance_results, "enforcement_actions", EmptyDict),
               "risk_level", "LOW"),
       DictGet(DictGet(compliance_results, "jurisdiction_analysis", EmptyDict),
               "risk_level", "LOW") >>

InList(x, list) == \E i \in 1..Len(list) : list[i] = x

\* a faulty variant of _calculate_overall_risk_level: HIGH is tested before
\* CRITICAL (C1)
OverallHighFirst(compliance_results) ==
    LET risk_factors == RiskFactors(compliance_results)
    IN  IF InList("HIGH", risk_factors) THEN "HIGH"
        ELSE IF InList("CRITICAL", risk_factors) THEN "CRITICAL"
        ELSE IF InList("MEDIUM", risk_factors) THEN "MEDIUM"
        ELSE "LOW"

_calculate_overall_risk_level(compliance_results) ==
    LET risk_factors == RiskFactors(compliance_results)
    IN  IF InList("CRITICAL", risk_factors) THEN "CRITICAL"
        ELSE IF InList("HIGH", risk_factors) THEN "HIGH"
        ELSE IF InList("MEDIUM", risk_factors) THEN "MEDIUM"
        ELSE "LOW"


(***************************************************************************)
(* The agent: configuration (ComplianceCheckerAgent.__init__)              *)
(***************************************************************************)
\* the keys of self.sanctions_sources, in insertion order
sanctions_sources == <<"OFAC_SDN", "OFAC_CONS", "UN_SC", "EU_SANCTIONS", "UK_HMT">>

\* the keys of self.enforcement_sources, in insertion order
enforcement_sources == <<"SEC", "CFTC", "DOJ", "FINRA", "FINCEN">>

\* self.restricted_jurisdictions, tier by tier in insertion order
restricted_jurisdictions ==
    << [tier |-> "HIGH_RISK",
        codes |-> <<"AF","BY","MM","CF","CN","CU","IR","IQ","LB","LY","ML",
                    "NI","KP","RU","SO","SS","SD","SY","UA","VE","YE","ZW">>],
       [tier |-> "MEDIUM_RISK",
        codes |-> <<"BD","BO","KH","EC","EG","GH","GT","HT","JM","JO","KE",
                    "LA","MV","MZ","NP","NI","PK","PH","LK","TZ","TH","TN",
                    "TR","UG","VN","ZM">>],
       [tier |-> "REGULATORY_RESTRICTED",
        codes |-> <<"US","CN","KR","JP","IN">>] >>

cache_duration == 3600

\* a Python value that is not a str (None)
NoneValue == << "None" >>

IsStr(v) == v # NoneValue

\* BaseAgent._validate_input(text), max_length not given
_validate_input(text) ==
    IF Len(text) = 0 \/ ~ IsStr(text) THEN FALSE ELSE TRUE

(***************************************************************************)
(* Exceptions.  A call either returns a value or raises; a method that is  *)
(* called on self and defined neither by ComplianceCheckerAgent nor by     *)
(* BaseAgent raises AttributeError when the call is reached.               *)
(***************************************************************************)
Returned(v) == [raised |-> FALSE, value |-> v]
Raise(exc, what) == [raised |-> TRUE, exc |-> exc, what |-> what]

\* a variant in which the formatting method exists and returns its text
\* (C12)
FormattedScreening(screening) == Returned("sanctions screening results")

_format_sanctions_screening_results(screening) ==
    Raise("AttributeError", "_format_sanctions_screening_results")
_format_enforcement_results(enforcement, ai_analysis) ==
    Raise("AttributeError", "_format_enforcement_results")
_generate_jurisdiction_recommendations(jurisdiction) ==
    Raise("AttributeError", "_generate_jurisdiction_recommendations")
_calculate_resolution_confidence(resolution) ==
    Raise("AttributeError", "_calculate_resolution_confidence")
_calculate_entity_risk_level(sanctions_check) ==
    Raise("AttributeError", "_calculate_entity_risk_level")
_calculate_sanctions_risk_score(sanctions_screening) ==
    Raise("AttributeError", "_calculate_sanctions_risk_score")

\* a faulty variant of HandlerFailure: the except clause returns no
\* metadata (C15)
HandlerFailureBare(content, e) == [success |-> FALSE, content |-> content]

\* the dict a handler returns from its except clause
HandlerFailure(content, e) ==
    [success |-> FALSE, content |-> content,
     metadata |-> [error |-> [exc |-> e.exc, what |-> e.what]]]

(***************************************************************************)
(* Sanctions data and its cache                                            *)
(***************************************************************************)
mock_data(t) ==
    [entities |-> << [name |-> SampleName, type |-> "individual",
                      program |-> "SDGT"],
                     [name |-> AnotherName, type |-> "entity",
                      program |-> "IRAN"] >>,
     last_updated |-> t]

\* d[k] = v on a dict
DictSet(d, k, v) ==
    [x \in DOMAIN d \cup {k} |-> IF x = k THEN v ELSE d[x]]

\* a faulty variant of _get_sanctions_data: a cache hit serves the cached
\* dict without its entities (C22)
CacheHitWithoutEntities(list_name, cache, expiry, t) ==
    IF list_name \in DOMAIN cache /\ list_name \in DOMAIN expiry
       /\ t < expiry[list_name]
    THEN [data |-> [entities |-> << >>, last_updated |-> t],
          cache |-> cache, expiry |-> expiry]
    ELSE [data |-> mock_data(t),
          cache |-> DictSet(cache, list_name, mock_data(t)),
          expiry |-> DictSet(expiry, list_name, t + cache_duration)]

\* a faulty variant of _get_sanctions_data: an entry is still served at
\* the very second it expires (C30)
CacheHitAtExpiry(list_name, cache, expiry, t) ==
    IF list_name \in DOMAIN cache /\ list_name \in DOMAIN expiry
       /\ t <= expiry[list_name]
    THEN [data |-> cache[list_name], cache |-> cache, expiry |-> expiry]
    ELSE [data |-> mock_data(t),
          cache |-> DictSet(cache, list_name, mock_data(t)),
          expiry |-> DictSet(expiry, list_name, t + cache_duration)]

\* returns the data together with the two cache dicts as the call leaves them
_get_sanctions_data(list_name, cache, expiry, t) ==
    IF list_name \in DOMAIN cache /\ list_name \in DOMAIN expiry
       /\ t < expiry[list_name]
    THEN [data |-> cache[list_name], cache |-> cache, expiry |-> expiry]
    ELSE [data |-> mock_data(t),
          cache |-> DictSet(cache, list_name, mock_data(t)),
          expiry |-> DictSet(expiry, list_name, t + cache_duration)]


(***************************************************************************)
(* The handlers.  Each returns the dict it hands back (ret) and the cache  *)
(* dicts as it leaves them; _sanctions_screening also returns the          *)
(* screening_results dict as it stood when the handler left its try block  *)
(* (built).  A handler is written as a chain of operators, one per step,   *)
(* each taking the values the steps before it computed.                    *)
(***************************************************************************)
\* a cached value that is no dict (None): .get on it raises
NotADict == [not_a_dict |-> TRUE]
IsDict(v) == "not_a_dict" \notin DOMAIN v

\* one pass of the loop over self.sanctions_sources: got is what
\* _get_sanctions_data returned.  The matching raises when the target is no
\* str (target.lower()) or the data is no dict (sanctions_data.get); the
\* list keeps its place in lists_checked and gets a '<list>_error' key
\* (errors).
ScreenStep(target, prev, list_name, got) ==
    [lists_checked |-> Append(prev.lists_checked, list_name),
     matches |-> IF IsStr(target) /\ IsDict(got.data)
                 THEN prev.matches \o
                      _match_against_sanctions_list(target, got.data, list_name)
                 ELSE prev.matches,
     errors |-> IF IsStr(target) /\ IsDict(got.data) THEN prev.errors
                ELSE prev.errors \cup {list_name},
     cache |-> got.cache, expiry |-> got.expiry]

ScreenList(target, prev, list_name, t) ==
    ScreenStep(target, prev, list_name,
               _get_sanctions_data(list_name, prev.cache, prev.expiry, t))

\* the loop over self.sanctions_sources, after its first n lists
RECURSIVE ScreenLoop(_, _, _, _, _)
ScreenLoop(target, cache, expiry, t, n) ==
    IF n = 0
    THEN [lists_checked |-> << >>, matches |-> << >>, errors |-> {},
          cache |-> cache, expiry |-> expiry]
    ELSE ScreenList(target, ScreenLoop(target, cache, expiry, t, n - 1),
                    sanctions_sources[n], t)

\* screening_results after "Process matches" and the crypto-specific pass
ScreeningResults(target, loop, t, crypto_matches) ==
    [target |-> target, screening_date |-> t,
     lists_checked |-> loop.lists_checked,
     matches |-> loop.matches \o crypto_matches,
     risk_level |-> _calculate_sanctions_risk_level(loop.matches),
     errors |-> loop.errors,
     crypto_specific_matches |-> Len(crypto_matches) > 0]

\* the return statement, or the except clause when the formatting raised
ScreeningReturn(loop, screening, formatted) ==
    [ret |-> IF formatted.raised
             THEN HandlerFailure("Error in sanctions screening", formatted)
             ELSE [success |-> TRUE, content |-> formatted.value,
                   data |-> screening,
                   metadata |->
                     [matches_found |-> Len(screening.matches),
                      risk_level |-> screening.risk_level,
                      lists_checked |-> Len(screening.lists_checked)]],
     built |-> screening, cache |-> loop.cache, expiry |-> loop.expiry]

ScreeningFormat(loop, screening) ==
    ScreeningReturn(loop, screening,
                    _format_sanctions_screening_results(screening))

ScreeningAfterLoop(target, loop, t) ==
    IF ~ IsStr(target)
    THEN \* matches is empty; target.lower() of the crypto pass raises
         [ret |-> HandlerFailure("Error in sanctions screening",
                                 Raise("AttributeError", "lower")),
          built |-> [target |-> target, screening_date |-> t,
                     lists_checked |-> loop.lists_checked,
                     matches |-> << >>, risk_level |-> "LOW",
                     errors |-> loop.errors,
                     crypto_specific_matches |-> FALSE],
          cache |-> loop.cache, expiry |-> loop.expiry]
    ELSE ScreeningFormat(loop,
             ScreeningResults(target, loop, t,
                              _check_crypto_specific_sanctions(target)))

_sanctions_screening(target, cache, expiry, t) ==
    ScreeningAfterLoop(target,
        ScreenLoop(target, cache, expiry, t, Len(sanctions_sources)), t)

Defi == <<"d","e","f","i">>
Crypto == <<"c","r","y","p","t","o">>

_search_enforcement_actions(target, agency) ==
    IF IsSubstring(Defi, Lower(target)) \/ IsSubstring(Crypto, Lower(target))
    THEN << [agency |-> agency, action_type |-> "Investigation",
             date |-> "2024-01-15", severity |-> "MEDIUM"] >>
    ELSE << >>

\* one pass of the loop over self.enforcement_sources; for a target that is
\* no str the search raises before the agency is appended
EnforcementStep(target, prev, agency) ==
    IF IsStr(target)
    THEN [actions |-> prev.actions \o
                      _search_enforcement_actions(target, agency),
          agencies_checked |-> Append(prev.agencies_checked, agency),
          errors |-> prev.errors]
    ELSE [prev EXCEPT !.errors = @ \cup {agency}]

RECURSIVE EnforcementLoop(_, _)
EnforcementLoop(target, n) ==
    IF n = 0
    THEN [actions |-> << >>, agencies_checked |-> << >>, errors |-> {}]
    ELSE EnforcementStep(target, EnforcementLoop(target, n - 1),
                         enforcement_sources[n])

\* _get_ai_enforcement_analysis: json.dumps of the results raises TypeError
\* when they hold an EnforcementAction object; _call_ai_model never raises
_get_ai_enforcement_analysis(enforcement) ==
    IF Len(enforcement.actions) > 0
    THEN Raise("TypeError", "json.dumps")
    ELSE Returned("ai analysis")

EnforcementReturn(enforcement, ai_analysis, formatted) ==
    IF ai_analysis.raised
    THEN HandlerFailure("Error in enforcement action check", ai_analysis)
    ELSE IF formatted.raised
    THEN HandlerFailure("Error in enforcement action check", formatted)
    ELSE [success |-> TRUE, content |-> formatted.value,
          data |-> enforcement,
          metadata |-> [actions_found |-> Len(enforcement.actions),
                        risk_level |-> enforcement.risk_level,
                        agencies_checked |->
                            Len(enforcement.agencies_checked)]]

EnforcementFormat(enforcement, ai_analysis) ==
    EnforcementReturn(enforcement, ai_analysis,
                      _format_enforcement_results(enforcement, ai_analysis))

EnforcementAnalyse(enforcement) ==
    EnforcementFormat(enforcement, _get_ai_enforcement_analysis(enforcement))

EnforcementAfterLoop(target, loop) ==
    EnforcementAnalyse(
        [target |-> target,
         actions |-> loop.actions,
         agencies_checked |-> loop.agencies_checked,
         errors |-> loop.errors,
         risk_level |-> _calculate_enforcement_risk_level(loop.actions)])

_enforcement_action_check(target) ==
    EnforcementAfterLoop(target,
                         EnforcementLoop(target, Len(enforcement_sources)))

_analyze_jurisdiction_restriction(target, jurisdiction, risk_level) ==
    IF jurisdiction \in {"US", "CN"}
    THEN << [jurisdiction |-> jurisdiction, risk_level |-> risk_level] >>
    ELSE << >>

RECURSIVE CodesLoop(_, _, _)
CodesLoop(target, tier, n) ==
    IF n = 0 THEN << >>
    ELSE CodesLoop(target, tier, n - 1)
         \o _analyze_jurisdiction_restriction(target, tier.codes[n], tier.tier)

RECURSIVE TiersLoop(_, _)
TiersLoop(target, n) ==
    IF n = 0 THEN << >>
    ELSE TiersLoop(target, n - 1)
         \o CodesLoop(target, restricted_jurisdictions[n],
                      Len(restricted_jurisdictions[n].codes))

JurisdictionReturn(jurisdiction, recommendations) ==
    IF recommendations.raised
    THEN HandlerFailure("Error in jurisdiction analysis", recommendations)
    ELSE [success |-> TRUE, content |-> "jurisdiction analysis",
          data |-> jurisdiction,
          metadata |-> [risk_level |-> jurisdiction.risk_level]]

JurisdictionRecommend(jurisdiction) ==
    JurisdictionReturn(jurisdiction,
                       _generate_jurisdiction_recommendations(jurisdiction))

_jurisdiction_analysis(target) ==
    JurisdictionRecommend(
        [target |-> target,
         restricted_jurisdictions |->
             TiersLoop(target, Len(restricted_jurisdictions)),
         risk_level |-> "LOW"])

ResolutionReturn(confidence) ==
    IF confidence.raised
    THEN HandlerFailure("Error in entity resolution", confidence)
    ELSE [success |-> TRUE, content |-> "entity resolution",
          metadata |-> [confidence_score |-> confidence.value]]

\* entity type, aliases and related entities are computed first; the
\* confidence score is the first call that raises
_entity_resolution(target) ==
    ResolutionReturn(_calculate_resolution_confidence(target))

\* the dict literal appended for one affiliated entity: risk is what
\* _calculate_entity_risk_level did
AffiliatedEntry(prev, entity, entity_check, sanctions_check, risk) ==
    [entries |-> IF risk.raised THEN prev.entries
                 ELSE Append(prev.entries,
                             [name |-> entity,
                              sanctions_check |-> sanctions_check,
                              risk_level |-> risk.value]),
     raised |-> risk.raised,
     error |-> risk,
     built |-> Append(prev.built, entity_check.built),
     cache |-> entity_check.cache,
     expiry |-> entity_check.expiry]

AffiliatedRisk(prev, entity, entity_check, sanctions_check) ==
    AffiliatedEntry(prev, entity, entity_check, sanctions_check,
                    _calculate_entity_risk_level(sanctions_check))

AffiliatedCheck(prev, entity, entity_check) ==
    AffiliatedRisk(prev, entity, entity_check,
                   DictGet(entity_check.ret, "data", EmptyDict))

\* one pass of the loop over affiliated_entities; the loop ends at the
\* first entity whose dict literal raises
AffiliatedStep(prev, entity, t) ==
    IF prev.raised THEN prev
    ELSE AffiliatedCheck(prev, entity,
             _sanctions_screening(entity, prev.cache, prev.expiry, t))

RECURSIVE AffiliatedLoop(_, _, _, _, _)
AffiliatedLoop(affiliated, cache, expiry, t, n) ==
    IF n = 0
    THEN [entries |-> << >>, raised |-> FALSE, error |-> Returned(0),
          built |-> << >>, cache |-> cache, expiry |-> expiry]
    ELSE AffiliatedStep(AffiliatedLoop(affiliated, cache, expiry, t, n - 1),
                        affiliated[n], t)

\* a faulty variant of _generate_compliance_recommendations: the legal
\* review pair is emitted for HIGH only and after the sanctions pair (C18)
RecommendationsReordered(compliance_results) ==
    (IF Len(DictGet(compliance_results.sanctions_screening,
                    "matches", << >>)) > 0
     THEN << "Review sanctions matches with compliance officer",
             "Implement sanctions screening procedures" >>
     ELSE << >>)
    \o (IF compliance_results.overall_risk_level = "HIGH"
        THEN << "Immediate legal review required",
                "Consider enhanced due diligence procedures" >>
        ELSE << >>)
    \o (IF Len(DictGet(compliance_results.enforcement_actions,
                       "actions", << >>)) > 0
        THEN << "Monitor ongoing enforcement developments",
                "Consider regulatory engagement strategy" >>
        ELSE << >>)
    \o << "Implement continuous monitoring system",
          "Document compliance procedures and decisions" >>

_generate_compliance_recommendations(compliance_results) ==
    (IF compliance_results.overall_risk_level \in {"HIGH", "CRITICAL"}
     THEN << "Immediate legal review required",
             "Consider enhanced due diligence procedures" >>
     ELSE << >>)
    \o (IF Len(DictGet(compliance_results.sanctions_screening,
                       "matches", << >>)) > 0
        THEN << "Review sanctions matches with compliance officer",
                "Implement sanctions screening procedures" >>
        ELSE << >>)
    \o (IF Len(DictGet(compliance_results.enforcement_actions,
                       "actions", << >>)) > 0
        THEN << "Monitor ongoing enforcement developments",
                "Consider regulatory engagement strategy" >>
        ELSE << >>)
    \o << "Implement continuous monitoring system",
          "Document compliance procedures and decisions" >>

\* steps 5 and 6 of _full_compliance_check
WithOverallRiskLevel(compliance_results) ==
    [compliance_results EXCEPT
         !.overall_risk_level =
             _calculate_overall_risk_level(compliance_results)]

WithRecommendations(compliance_results) ==
    [compliance_results EXCEPT
         !.recommendations =
             _generate_compliance_recommendations(compliance_results)]

\* the return statement of _full_compliance_check
FullReturn(compliance_results, built, loop) ==
    [ret |->
       [success |-> TRUE, content |-> "compliance report",
        data |-> compliance_results,
        metadata |->
          [target |-> compliance_results.target,
           overall_risk_level |-> compliance_results.overall_risk_level,
           sanctions_matches |->
               Len(DictGet(compliance_results.sanctions_screening,
                           "matches", << >>)),
           enforcement_actions |->
               Len(DictGet(compliance_results.enforcement_actions,
                           "actions", << >>)),
           affiliated_entities_checked |->
               Len(compliance_results.affiliated_entities)]],
     built |-> built, cache |-> loop.cache, expiry |-> loop.expiry]

\* steps 5 to 7, or the except clause when the affiliated loop raised
FullAfterLoop(target, t, sanctions_result, enforcement_result, jurisdiction_result, loop) ==
    IF loop.raised
    THEN [ret |-> HandlerFailure("Error in full compliance check",
                                 loop.error),
          built |-> << sanctions_result.built >> \o loop.built,
          cache |-> loop.cache, expiry |-> loop.expiry]
    ELSE FullReturn(
             WithRecommendations(WithOverallRiskLevel(
                 [target |-> target, check_date |-> t,
                  sanctions_screening |->
                      DictGet(sanctions_result.ret, "data", EmptyDict),
                  enforcement_actions |->
                      DictGet(enforcement_result, "data", EmptyDict),
                  jurisdiction_analysis |->
                      DictGet(jurisdiction_result, "data", EmptyDict),
                  affiliated_entities |-> loop.entries,
                  overall_risk_level |-> "UNKNOWN",
                  recommendations |-> << >>])),
             << sanctions_result.built >> \o loop.built, loop)

\* step 4: the affiliated entities of the parameters
FullAffiliated(target, t, sanctions_result, enforcement_result, jurisdiction_result, affiliated_entities) ==
    FullAfterLoop(target, t, sanctions_result, enforcement_result,
                  jurisdiction_result,
                  AffiliatedLoop(affiliated_entities, sanctions_result.cache,
                                 sanctions_result.expiry, t,
                                 Len(affiliated_entities)))

\* steps 2 and 3
\* parameters.get raises when the parameters are no dict
FullAfterSanctions(target, parameters, t, sanctions_result) ==
    IF ~ IsDict(parameters)
    THEN [ret |-> HandlerFailure("Error in full compliance check",
                                 Raise("AttributeError", "get")),
          built |-> << sanctions_result.built >>,
          cache |-> sanctions_result.cache,
          expiry |-> sanctions_result.expiry]
    ELSE FullAffiliated(target, t, sanctions_result,
                        _enforcement_action_check(target),
                        _jurisdiction_analysis(target),
                        DictGet(parameters, "affiliated_entities", << >>))

_full_compliance_check(target, parameters, cache, expiry, t) ==
    FullAfterSanctions(target, parameters, t,
                       _sanctions_screening(target, cache, expiry, t))

RiskReturn(full_check, score) ==
    IF score.raised
    THEN [full_check EXCEPT
              !.ret = HandlerFailure("Error in risk assessment", score)]
    ELSE [full_check EXCEPT
              !.ret = [success |-> TRUE, content |-> "risk assessment",
                       metadata |-> [overall_risk_score |-> score.value]]]

RiskAfterFullCheck(full_check) ==
    IF ~ full_check.ret.success THEN full_check
    ELSE RiskReturn(full_check,
                    _calculate_sanctions_risk_score(full_check.ret.data))

_risk_assessment(target, parameters, cache, expiry, t) ==
    RiskAfterFullCheck(
        _full_compliance_check(target, parameters, cache, expiry, t))

(***************************************************************************)
(* process_request                                                         *)
(***************************************************************************)
\* BaseAgent._create_response, as process_request calls it
_create_response(content, success, metadata) ==
    [success |-> success, content |-> content, metadata |-> metadata,
     agent_type |-> "ComplianceCheckerAgent"]

NoHandler == [success |-> FALSE, content |-> "no handler ran",
              metadata |-> EmptyDict]

\* a request rejected before any handler ran
Rejected(resp, cache, expiry) ==
    [response |-> resp, ret |-> NoHandler, built |-> << >>,
     cache |-> cache, expiry |-> expiry]

\* the response made of what the handler returned
Respond(h) ==
    [response |-> _create_response(h.ret.content, h.ret.success,
                                   DictGet(h.ret, "metadata", EmptyDict)),
     ret |-> h.ret, built |-> h.built, cache |-> h.cache,
     expiry |-> h.expiry]

\* a handler that neither screens nor touches the cache
Stateless(r, cache, expiry) ==
    [ret |-> r, built |-> << >>, cache |-> cache, expiry |-> expiry]

SingleScreening(h) == [h EXCEPT !.built = << h.built >>]

\* a faulty variant of Dispatch: every action, known or not, is served by
\* the default handler (C14)
DispatchAllToDefault(action, target, parameters, cache, expiry, t) ==
    Respond(_full_compliance_check(target, parameters, cache, expiry, t))

\* "Route to appropriate handler"
Dispatch(action, target, parameters, cache, expiry, t) ==
    IF action = "full_compliance_check"
    THEN Respond(_full_compliance_check(target, parameters, cache, expiry, t))
    ELSE IF action = "sanctions_screening"
    THEN Respond(SingleScreening(
                     _sanctions_screening(target, cache, expiry, t)))
    ELSE IF action = "enforcement_check"
    THEN Respond(Stateless(_enforcement_action_check(target), cache, expiry))
    ELSE IF action = "jurisdiction_analysis"
    THEN Respond(Stateless(_jurisdiction_analysis(target), cache, expiry))
    ELSE IF action = "entity_resolution"
    THEN Respond(Stateless(_entity_resolution(target), cache, expiry))
    ELSE IF action = "risk_assessment"
    THEN Respond(_risk_assessment(target, parameters, cache, expiry, t))
    ELSE Rejected(_create_response("Unknown compliance action", FALSE,
                                   [error |-> "Unsupported action"]),
                  cache, expiry)

\* a faulty variant of Validate: the target is not validated (C13)
ValidateSkipped(action, target, parameters, cache, expiry, t) ==
    Dispatch(action, target, parameters, cache, expiry, t)

Validate(action, target, parameters, cache, expiry, t) ==
    IF ~ _validate_input(target)
    THEN Rejected(_create_response(
                      "Invalid target provided for compliance check", FALSE,
                      [error |-> "Invalid or empty target"]),
                  cache, expiry)
    ELSE Dispatch(action, target, parameters, cache, expiry, t)

\* the response, the dict of the handler that ran (NoHandler when none
\* did), the screening dicts built on the way, and the cache dicts after
process_request(req, cache, expiry, t) ==
    IF ~ IsDict(req)
    THEN \* request.get raises inside the try: the outer except clause
         Rejected(_create_response(
                      "Error processing compliance request", FALSE,
                      [error |-> [exc |-> "AttributeError", what |-> "get"]]),
                  cache, expiry)
    ELSE Validate(DictGet(req, "action", "full_compliance_check"),
                  DictGet(req, "target", << >>),
                  DictGet(req, "parameters", EmptyDict),
                  cache, expiry, t)

(***************************************************************************)
(* The agent as a state machine: requests arrive one at a time, the clock  *)
(* advances between them.                                                  *)
(***************************************************************************)
Uniswap == <<"U","n","i","s","w","a","p">>
TornadoCashSpaced == <<"T","o","r","n","a","d","o"," ","C","a","s","h">>
TornadoCashDotted == <<"T","o","r","n","a","d","o",".","C","a","s","h">>
DefiApp == <<"D","e","F","i"," ","a","p","p">>

ReqTargets ==
    { << >>, NoneValue, SampleName,
      SampleName \o <<"!">>, SampleName \o <<"#","#","#">>,
      SampleName \o <<" ">> \o TornadoCash,
      TornadoCashSpaced, TornadoCashDotted, BlenderIo \o MixerMoney,
      Uniswap, DefiApp }

\* the targets tried on the handlers that never match names
PlainTargets == { << >>, NoneValue, Uniswap, DefiApp }

\* the affiliated entities of a request; one that is none is no str
AffiliatedNames == { SampleName, Uniswap, NoneValue }

RECURSIVE SeqsUpTo(_, _)
SeqsUpTo(S, n) ==
    IF n = 0 THEN { << >> }
    ELSE LET shorter == SeqsUpTo(S, n - 1)
         IN  shorter \cup { Append(q, x) : q \in shorter, x \in S }

AffiliatedLists == SeqsUpTo(AffiliatedNames, MaxAffiliated)

\* the targets of the requests that name affiliated entities
FullTargets == { SampleName, TornadoCashDotted, Uniswap, DefiApp }

Requests ==
    { [action |-> "full_compliance_check", target |-> t,
       parameters |-> [affiliated_entities |-> aff]] :
          t \in FullTargets, aff \in AffiliatedLists }
    \cup { [action |-> "risk_assessment", target |-> SampleName,
            parameters |-> [affiliated_entities |-> aff]] :
              aff \in AffiliatedLists }
    \cup { [action |-> a, target |-> t] :
              a \in {"sanctions_screening", "full_compliance_check"},
              t \in ReqTargets }
    \cup { [action |-> a, target |-> t] :
              a \in {"enforcement_check", "jurisdiction_analysis",
                     "entity_resolution", "risk_assessment",
                     "bogus_action"},
              t \in PlainTargets }
    \cup { [target |-> SampleName], [action |-> "sanctions_screening"],
           [action |-> "bogus_action"], NotADict,
           [action |-> "full_compliance_check", target |-> Uniswap,
            parameters |-> NotADict] }

(***************************************************************************)
(* SanctionsDataManager (tools/sanctions_data_manager.py): the table       *)
(* sanctions_entities of sanctions.db, the connection of _store_entities   *)
(* and the calls that read the table through connections of their own.     *)
(***************************************************************************)

\* two of the keys of self.data_sources
SourceNames == { "OFAC_SDN", "UN_SC" }

Uids == { "1", "2" }

\* a SanctionsEntity as a parser builds it for source_name; the columns
\* the readers group and select by are kept
SanctionsEntity(uid, source_name) == [uid |-> uid, name |-> IF source_name = "OFAC_SDN" THEN "Alpha Trading" ELSE "Beta Shipping", entity_type |-> IF uid = "1" THEN "individual" ELSE "entity", source_list |-> source_name]

\* the lists of entities of one source handed to _store_entities
EntityLists(source_name) ==
    SeqsUpTo({ SanctionsEntity(u, source_name) : u \in Uids }, MaxBatch)

\* a faulty variant of DeleteSource: DELETE without the WHERE clause (C19)
DeleteEverySource(table, source_name) == { }

\* DELETE FROM sanctions_entities WHERE source_list = ?
DeleteSource(table, source_name) ==
    { r \in table : r.source_list # source_name }

\* a faulty variant of InsertOrReplace: INSERT OR IGNORE, the row that
\* holds the uid stays (C21)
InsertOrIgnore(table, entity) ==
    IF \E r \in table : r.uid = entity.uid THEN table ELSE table \cup { entity }

\* INSERT OR REPLACE INTO sanctions_entities: the row that holds the uid,
\* of whatever source, gives way to the new one
InsertOrReplace(table, entity) ==
    { r \in table : r.uid # entity.uid } \cup { entity }

NoStore == [pc |-> "idle"]

NoRead == [op |-> "none", pc |-> "done"]

\* the database file as committed, the transaction of _store_entities,
\* the last call that read the table, the last stored_count returned
EmptyDb == [committed |-> { }, conn |-> NoStore, reader |-> NoRead, stored_count |-> 0]

\* a faulty variant of Snapshot: the reader sees the rows of the open
\* transaction (C20)
SnapshotOfOpenTransaction(d) ==
    IF d.conn.pc = "idle" THEN d.committed ELSE d.conn.table

\* what a SELECT on another connection reads: the committed rows; the
\* rows of a transaction that is still open are not visible outside it
Snapshot(d) == d.committed

NoRow == [none |-> TRUE]

\* SELECT * FROM sanctions_entities WHERE uid = ?, fetchone()
SelectByUid(table, uid) ==
    IF \E r \in table : r.uid = uid
    THEN CHOOSE r \in table : r.uid = uid
    ELSE NoRow

\* SELECT COUNT(*) FROM sanctions_entities
total_entities(table) == Cardinality(table)

\* SELECT source_list, COUNT(*) ... GROUP BY source_list, as a dict
by_source(table) == [s \in { r.source_list : r \in table } |-> Cardinality({ r \in table : r.source_list = s })]

\* SELECT entity_type, COUNT(*) ... GROUP BY entity_type, as a dict
by_type(table) == [t \in { r.entity_type : r \in table } |-> Cardinality({ r \in table : r.entity_type = t })]

\* two entries of self.data_sources, in the order of the dict
data_sources ==
    << [name |-> "OFAC_SDN", parser |-> "_parse_ofac_sdn", update_frequency |-> 24],
       [name |-> "OFAC_CRYPTO", parser |-> "_parse_ofac_crypto", update_frequency |-> 6] >>

DataSourceNames == { data_sources[i].name : i \in 1..Len(data_sources) }

\* what a download yields: a status and a text; a text is the list of the
\* ids (of the addresses) of its entries, or cannot be parsed
Unparseable == << "<" >>
Downloads ==
    { [status |-> 500, content |-> Unparseable] }
    \cup { [status |-> 200, content |-> d] :
              d \in { Unparseable, << "1" >>, << "1", "2" >> } }

\* _parse_ofac_sdn and _parse_ofac_crypto: no entity for a text that
\* cannot be parsed (the parse error is caught), else one entity per entry
\* with a uid made of the source name and the id, or of their digest
Parse(parser, content, source_name) ==
    IF content = Unparseable THEN << >>
    ELSE [i \in 1..Len(content) |->
             SanctionsEntity(IF parser = "_parse_ofac_sdn"
                             THEN source_name \o "_" \o content[i]
                             ELSE "md5(" \o source_name \o "_" \o content[i] \o ")",
                             source_name)]

\* the loop of _store_entities over the first n entities
RECURSIVE InsertLoop(_, _, _)
InsertLoop(table, entities, n) ==
    IF n = 0 THEN table
    ELSE InsertOrReplace(InsertLoop(table, entities, n - 1), entities[n])

\* _store_entities from connect to commit: the table it leaves
_store_entities(table, entities, source_name) ==
    InsertLoop(DeleteSource(table, source_name), entities, Len(entities))

_needs_update(last_update_check, source_name, update_frequency_hours, t) ==
    IF source_name \notin DOMAIN last_update_check THEN TRUE
    ELSE t - last_update_check[source_name] > update_frequency_hours

\* one task: st holds the table, the stored_count last returned,
\* last_update_check and the results of the tasks before; the result dict
\* of this task is appended
_update_source(st, source, download, t) ==
    IF download.status # 200
    THEN [st EXCEPT !.source_results = Append(@, [success |-> FALSE, error |-> "HTTP 500"])]
    ELSE [st EXCEPT !.table = _store_entities(@, Parse(source.parser, download.content, source.name), source.name),
                    !.stored_count = Len(Parse(source.parser, download.content, source.name)),
                    !.last_update_check = DictSet(@, source.name, t),
                    !.source_results = Append(@, [success |-> TRUE, entities_count |-> Len(Parse(source.parser, download.content, source.name))])]

\* the indices of the sources for which a task is created, in order
RECURSIVE Tasks(_, _, _, _)
Tasks(force_update, last_update_check, t, n) ==
    IF n = 0 THEN << >>
    ELSE Tasks(force_update, last_update_check, t, n - 1)
         \o (IF force_update
                \/ _needs_update(last_update_check, data_sources[n].name,
                                 data_sources[n].update_frequency, t)
             THEN << n >> ELSE << >>)

\* asyncio.gather over the first n tasks: results in the order of the
\* tasks.  A task runs from the end of its download to its return without
\* awaiting, and the sources share neither rows nor keys, so the tasks are
\* taken in order.
RECURSIVE Gather(_, _, _, _, _)
Gather(st, tasks, downloads, t, n) ==
    IF n = 0 THEN st
    ELSE _update_source(Gather(st, tasks, downloads, t, n - 1),
                        data_sources[tasks[n]],
                        downloads[data_sources[tasks[n]].name], t)

\* "source_name = list(self.data_sources.keys())[i]" for the first n
\* results
RECURSIVE Attribute(_, _)
Attribute(source_results, n) ==
    IF n = 0 THEN EmptyDict
    ELSE DictSet(Attribute(source_results, n - 1), data_sources[n].name,
                 source_results[n])

EmptyManager == [clock |-> 0, last_update_check |-> EmptyDict, results |-> EmptyDict, force_update |-> FALSE, downloads |-> EmptyDict, called |-> FALSE]

(***************************************************************************)
(* ComplianceCheckerAgent: initial state and steps                         *)
(***************************************************************************)

NoRequest == [action |-> "none"]
NoResponse == [success |-> FALSE, content |-> "none", metadata |-> EmptyDict,
               agent_type |-> "none"]
NoCall == [op |-> "none", done |-> FALSE]

AgentInit ==
    /\ sanctions_cache = EmptyDict
    /\ cache_expiry = EmptyDict
    /\ now = 0
    /\ request = NoRequest
    /\ response = NoResponse
    /\ handler_ret = NoHandler
    /\ screenings = << >>

Init ==
    /\ AgentInit
    /\ fn = NoCall
    /\ db = EmptyDb
    /\ manager = EmptyManager

ProcessRequest ==
    \E req \in Requests :
        \E r \in {process_request(req, sanctions_cache, cache_expiry, now)} :
            /\ request' = req
            /\ response' = r.response
            /\ handler_ret' = r.ret
            /\ screenings' = r.built
            /\ sanctions_cache' = r.cache
            /\ cache_expiry' = r.expiry
            /\ UNCHANGED <<now, fn, db, manager>>

Tick ==
    /\ now + TickSeconds <= MaxTicks * TickSeconds
    /\ now' = now + TickSeconds
    /\ UNCHANGED <<fn, sanctions_cache, cache_expiry, request, response,
                   handler_ret, screenings, db, manager>>

Next == ProcessRequest \/ Tick

Spec == Init /\ [][Next]_vars

(***************************************************************************)
(* The pure methods, invoked directly: the initial state holds the         *)
(* arguments of one call, the action of the method called computes its     *)
(* return value.                                                           *)
(***************************************************************************)
\* targets handed to the matcher and to the crypto pass: runs of "a"
\* followed by runs of "b", and variants in case and in blanks
MatchTargets ==
    { Rep("a", i) \o Rep("b", j) : i \in 0..MaxRunA, j \in 0..MaxRunB }
    \cup { <<"A">>, <<"A","B">>, <<" ","a">>, <<"a"," ">>, <<" ","A"," ">> }

\* entities of a sanctions list, with the aliases a list may carry
MatchEntities ==
    { [name |-> <<"A">>, aliases |-> << >>],
      [name |-> <<"A","b">>, aliases |-> << >>],
      [name |-> Rep("a", 5), aliases |-> << <<"b">> >>],
      [name |-> Rep("a", 10), aliases |-> << >>] }

\* the sanctions_data dicts: with an 'entities' list, and without the key
MatchData ==
    { [entities |-> es] : es \in SeqsUpTo(MatchEntities, MaxEntities) }
    \cup { EmptyDict }

CryptoTargets ==
    MatchTargets
    \cup { TornadoCash, TornadoCashDotted, TornadoCashSpaced,
           <<" ">> \o TornadoCash, TornadoCash \o <<" ">>,
           <<"x">> \o BlenderIo \o <<"y">>, BlenderIo \o MixerMoney,
           MixerMoney \o TornadoCash \o BlenderIo, Uniswap }

Levels == {"LOW", "MEDIUM", "HIGH", "CRITICAL"}

\* a category result: a dict with a risk_level, or {}
CategoryResults == { [risk_level |-> l] : l \in Levels } \cup { EmptyDict }

\* the affiliated_entities list of a compliance_results dict
AffiliatedResults ==
    { << >>,
      << [name |-> Uniswap, sanctions_check |-> [risk_level |-> "LOW"],
          risk_level |-> "LOW"] >>,
      << [name |-> SampleName, sanctions_check |-> [risk_level |-> "CRITICAL"],
          risk_level |-> "CRITICAL"] >> }

OverallInputs ==
    { [sanctions_screening |-> s, enforcement_actions |-> e,
       jurisdiction_analysis |-> j, affiliated_entities |-> a] :
          s \in CategoryResults, e \in CategoryResults,
          j \in CategoryResults, a \in AffiliatedResults }

\* targets of the screeners called directly; a screener is handed a
\* non-str target when an affiliated entity is none
ScreenerTargets == { Uniswap, SampleName, DefiApp, TornadoCashDotted, NoneValue }

ListNames == { sanctions_sources[n] : n \in 1..Len(sanctions_sources) }

\* self.sanctions_cache and self.cache_expiry of an agent whose unexpired
\* cache entries for the lists f are no dicts: the matching of these lists
\* raises, the others are fetched as usual
UnusableCache(f) == [l \in f |-> NotADict]
UnusableExpiry(f) == [l \in f |-> cache_duration]

\* EnforcementAction objects, by severity
EnforcementActions ==
    { [agency |-> "SEC", action_type |-> "Investigation",
       date |-> "2024-01-15", severity |-> v] : v \in Levels }

ActionLists == SeqsUpTo(EnforcementActions, MaxActions)

\* the compliance_results dicts handed to the recommendation rules
RecommendationInputs ==
    { [overall_risk_level |-> l, sanctions_screening |-> s,
       enforcement_actions |-> e] :
          l \in Levels \cup {"UNKNOWN"},
          s \in { EmptyDict, [matches |-> << >>],
                  [matches |-> << [entity_name |-> SampleName] >>] },
          e \in { EmptyDict, [actions |-> << >>],
                  [actions |-> << [agency |-> "SEC"] >>] } }

\* the strings handed to _calculate_similarity
SimilarityStrings == UNION { [1..n -> {"a", "b"}] : n \in 0..MaxSimLen }

\* the two cache dicts after the lists of f were fetched at time t0
CachedAt(f, t0) == [l \in f |-> mock_data(t0)]
ExpiryAt(f, t0) == [l \in f |-> t0 + cache_duration]

\* the times of a call for a list fetched at t0: before its expiry, at
\* it and after it
CallTimes(t0) ==
    { t0, t0 + TickSeconds, t0 + cache_duration,
      t0 + cache_duration + TickSeconds }

Calls ==
    { [op |-> "_match_against_sanctions_list", done |-> FALSE,
       target |-> t, sanctions_data |-> d, list_name |-> "OFAC_SDN",
       out |-> << >>] : t \in MatchTargets, d \in MatchData }
    \cup { [op |-> "_check_crypto_specific_sanctions", done |-> FALSE,
            target |-> t, out |-> << >>] : t \in CryptoTargets }
    \cup { [op |-> "_calculate_overall_risk_level", done |-> FALSE,
            compliance_results |-> c, out |-> "UNKNOWN"] :
              c \in OverallInputs }
    \cup { [op |-> "_sanctions_screening", done |-> FALSE, target |-> t,
            cache |-> UnusableCache(f), expiry |-> UnusableExpiry(f),
            out |-> << >>] :
              t \in ScreenerTargets, f \in SUBSET ListNames }
    \cup { [op |-> "_enforcement_action_check", done |-> FALSE,
            target |-> t, out |-> << >>] : t \in ScreenerTargets }
    \cup UNION { { [op |-> "_get_sanctions_data", done |-> FALSE,
                    list_name |-> l, cache |-> CachedAt(f, t0),
                    expiry |-> ExpiryAt(f, t0), t |-> t,
                    out |-> [data |-> EmptyDict, cache |-> EmptyDict,
                             expiry |-> EmptyDict]] :
                      l \in ListNames, f \in SUBSET ListNames,
                      t \in CallTimes(t0) } : t0 \in {0, TickSeconds} }
    \cup { [op |-> "_calculate_similarity", done |-> FALSE,
            str1 |-> a, str2 |-> b, out |-> Score(0, 1)] :
              a \in SimilarityStrings, b \in SimilarityStrings }
    \cup { [op |-> "_calculate_enforcement_risk_level", done |-> FALSE,
            actions |-> a, out |-> "UNKNOWN"] : a \in ActionLists }
    \cup { [op |-> "_generate_compliance_recommendations", done |-> FALSE,
            compliance_results |-> c, out |-> << >>] :
              c \in RecommendationInputs }

InitFn ==
    /\ AgentInit
    /\ fn \in Calls
    /\ db = EmptyDb
    /\ manager = EmptyManager

ApplyMatch ==
    /\ fn.op = "_match_against_sanctions_list"
    /\ ~ fn.done
    /\ fn' = [fn EXCEPT !.done = TRUE,
                        !.out = _match_against_sanctions_list(
                                    fn.target, fn.sanctions_data,
                                    fn.list_name)]
    /\ UNCHANGED <<sanctions_cache, cache_expiry, now, request, response,
                   handler_ret, screenings, db, manager>>

ApplyCrypto ==
    /\ fn.op = "_check_crypto_specific_sanctions"
    /\ ~ fn.done
    /\ fn' = [fn EXCEPT !.done = TRUE,
                        !.out = _check_crypto_specific_sanctions(fn.target)]
    /\ UNCHANGED <<sanctions_cache, cache_expiry, now, request, response,
                   handler_ret, screenings, db, manager>>

ApplyOverall ==
    /\ fn.op = "_calculate_overall_risk_level"
    /\ ~ fn.done
    /\ fn' = [fn EXCEPT !.done = TRUE,
                        !.out = _calculate_overall_risk_level(
                                    fn.compliance_results)]
    /\ UNCHANGED <<sanctions_cache, cache_expiry, now, request, response,
                   handler_ret, screenings, db, manager>>

ApplyScreening ==
    /\ fn.op = "_sanctions_screening"
    /\ ~ fn.done
    /\ fn' = [fn EXCEPT !.done = TRUE,
                        !.out = _sanctions_screening(fn.target, fn.cache,
                                                     fn.expiry, now)]
    /\ UNCHANGED <<sanctions_cache, cache_expiry, now, request, response,
                   handler_ret, screenings, db, manager>>

ApplyEnforcement ==
    /\ fn.op = "_enforcement_action_check"
    /\ ~ fn.done
    /\ fn' = [fn EXCEPT !.done = TRUE,
                        !.out = _enforcement_action_check(fn.target)]
    /\ UNCHANGED <<sanctions_cache, cache_expiry, now, request, response,
                   handler_ret, screenings, db, manager>>

ApplyEnforcementRisk ==
    /\ fn.op = "_calculate_enforcement_risk_level"
    /\ ~ fn.done
    /\ fn' = [fn EXCEPT !.done = TRUE,
                        !.out = _calculate_enforcement_risk_level(fn.actions)]
    /\ UNCHANGED <<sanctions_cache, cache_expiry, now, request, response,
                   handler_ret, screenings, db, manager>>

ApplyRecommendations ==
    /\ fn.op = "_generate_compliance_recommendations"
    /\ ~ fn.done
    /\ fn' = [fn EXCEPT !.done = TRUE,
                        !.out = _generate_compliance_recommendations(
                                    fn.compliance_results)]
    /\ UNCHANGED <<sanctions_cache, cache_expiry, now, request, response,
                   handler_ret, screenings, db, manager>>

ApplySimilarity ==
    /\ fn.op = "_calculate_similarity"
    /\ ~ fn.done
    /\ fn' = [fn EXCEPT !.done = TRUE,
                        !.out = _calculate_similarity(fn.str1, fn.str2)]
    /\ UNCHANGED <<sanctions_cache, cache_expiry, now, request, response,
                   handler_ret, screenings, db, manager>>

ApplyGetSanctionsData ==
    /\ fn.op = "_get_sanctions_data"
    /\ ~ fn.done
    /\ fn' = [fn EXCEPT !.done = TRUE,
                        !.out = _get_sanctions_data(fn.list_name, fn.cache,
                                                    fn.expiry, fn.t)]
    /\ UNCHANGED <<sanctions_cache, cache_expiry, now, request, response,
                   handler_ret, screenings, db, manager>>

NextFn ==
    \/ ApplyMatch
    \/ ApplyCrypto
    \/ ApplyOverall
    \/ ApplyScreening
    \/ ApplyEnforcement
    \/ ApplyEnforcementRisk
    \/ ApplyRecommendations
    \/ ApplySimilarity
    \/ ApplyGetSanctionsData

SpecFn == InitFn /\ [][NextFn]_vars

(***************************************************************************)
(* SanctionsDataManager: one _store_entities call at a time, its           *)
(* statements taken one by one, and reading calls in between them          *)
(***************************************************************************)

InitDb ==
    /\ AgentInit
    /\ fn = NoCall
    /\ db = EmptyDb
    /\ manager = EmptyManager

\* sqlite3.connect and the DELETE, which opens the transaction
StoreDelete ==
    /\ db.conn.pc = "idle"
    /\ \E source_name \in SourceNames :
         \E entities \in EntityLists(source_name) :
           db' = [db EXCEPT !.conn = [pc |-> "insert", source_name |-> source_name, entities |-> entities, done |-> 0, table |-> DeleteSource(db.committed, source_name)]]
    /\ UNCHANGED <<fn, sanctions_cache, cache_expiry, now, request, response,
                   handler_ret, screenings, manager>>

\* one turn of the loop over entities
StoreInsert ==
    /\ db.conn.pc = "insert"
    /\ db.conn.done < Len(db.conn.entities)
    /\ db' = [db EXCEPT !.conn.done = @ + 1,
                        !.conn.table = InsertOrReplace(@, db.conn.entities[db.conn.done + 1])]
    /\ UNCHANGED <<fn, sanctions_cache, cache_expiry, now, request, response,
                   handler_ret, screenings, manager>>

\* the rebuild of the index, conn.commit() and return stored_count
StoreCommit ==
    /\ db.conn.pc = "insert"
    /\ db.conn.done = Len(db.conn.entities)
    /\ db' = [db EXCEPT !.committed = db.conn.table,
                        !.conn = NoStore,
                        !.stored_count = db.conn.done]
    /\ UNCHANGED <<fn, sanctions_cache, cache_expiry, now, request, response,
                   handler_ret, screenings, manager>>

ReaderIdle == db.reader.pc = "done"

\* get_entity_by_uid(uid)
GetEntityByUid ==
    /\ ReaderIdle
    /\ \E uid \in Uids :
         db' = [db EXCEPT !.reader = [op |-> "get_entity_by_uid", pc |-> "done", uid |-> uid, out |-> SelectByUid(Snapshot(db), uid)]]
    /\ UNCHANGED <<fn, sanctions_cache, cache_expiry, now, request, response,
                   handler_ret, screenings, manager>>

\* search_entities(query): "WHERE fts MATCH ?" names the alias of the
\* index where SQLite wants the table, and execute raises
SearchEntities ==
    /\ ReaderIdle
    /\ db' = [db EXCEPT !.reader = [op |-> "search_entities", pc |-> "done", out |-> Raise("OperationalError", "no such column: fts")]]
    /\ UNCHANGED <<fn, sanctions_cache, cache_expiry, now, request, response,
                   handler_ret, screenings, manager>>

\* get_statistics(), first SELECT
StatisticsTotal ==
    /\ ReaderIdle
    /\ db' = [db EXCEPT !.reader = [op |-> "get_statistics", pc |-> "by_source", total_entities |-> total_entities(Snapshot(db)), entities_by_source |-> EmptyDict, entities_by_type |-> EmptyDict]]
    /\ UNCHANGED <<fn, sanctions_cache, cache_expiry, now, request, response,
                   handler_ret, screenings, manager>>

\* get_statistics(), second SELECT
StatisticsBySource ==
    /\ db.reader.op = "get_statistics"
    /\ db.reader.pc = "by_source"
    /\ db' = [db EXCEPT !.reader.pc = "by_type",
                        !.reader.entities_by_source = by_source(Snapshot(db))]
    /\ UNCHANGED <<fn, sanctions_cache, cache_expiry, now, request, response,
                   handler_ret, screenings, manager>>

\* get_statistics(), third SELECT and the return
StatisticsByType ==
    /\ db.reader.op = "get_statistics"
    /\ db.reader.pc = "by_type"
    /\ db' = [db EXCEPT !.reader.pc = "done",
                        !.reader.entities_by_type = by_type(Snapshot(db))]
    /\ UNCHANGED <<fn, sanctions_cache, cache_expiry, now, request, response,
                   handler_ret, screenings, manager>>

NextDb ==
    \/ StoreDelete
    \/ StoreInsert
    \/ StoreCommit
    \/ GetEntityByUid
    \/ SearchEntities
    \/ StatisticsTotal
    \/ StatisticsBySource
    \/ StatisticsByType

SpecDb == InitDb /\ [][NextDb]_vars

(***************************************************************************)
(* SanctionsDataManager: update_all_sources calls as the clock advances    *)
(***************************************************************************)

InitUpd ==
    /\ AgentInit
    /\ fn = NoCall
    /\ db = EmptyDb
    /\ manager = EmptyManager

\* update_all_sources(force_update), the downloads being what the servers
\* answer
UpdateAllSources ==
    /\ \E force_update \in BOOLEAN :
         \E downloads \in [DataSourceNames -> Downloads] :
           \E tasks \in {Tasks(force_update, manager.last_update_check, manager.clock, Len(data_sources))} :
             \E st \in {Gather([table |-> db.committed, stored_count |-> db.stored_count, last_update_check |-> manager.last_update_check, source_results |-> << >>], tasks, downloads, manager.clock, Len(tasks))} :
               /\ db' = [db EXCEPT !.committed = st.table,
                                   !.stored_count = st.stored_count]
               /\ manager' = [manager EXCEPT
                                 !.last_update_check = st.last_update_check,
                                 !.results = Attribute(st.source_results, Len(st.source_results)),
                                 !.force_update = force_update,
                                 !.downloads = downloads,
                                 !.called = TRUE]
    /\ UNCHANGED <<fn, sanctions_cache, cache_expiry, now, request, response,
                   handler_ret, screenings>>

AdvanceClock ==
    /\ manager.clock < MaxClockSteps * ClockHours
    /\ manager' = [manager EXCEPT !.clock = @ + ClockHours]
    /\ UNCHANGED <<fn, sanctions_cache, cache_expiry, now, request, response,
                   handler_ret, screenings, db>>

NextUpd == UpdateAllSources \/ AdvanceClock

SpecUpd == InitUpd /\ [][NextUpd]_vars

(***************************************************************************)
(* Properties.  The definitions below state what is claimed of the code;   *)
(* they compute levels, overlaps and counts on their own and take nothing  *)
(* from the operators above but the values under test.                     *)
(***************************************************************************)
\* the order LOW < MEDIUM < HIGH < CRITICAL
LevelRank(l) ==
    CASE l = "LOW" -> 1
      [] l = "MEDIUM" -> 2
      [] l = "HIGH" -> 3
      [] l = "CRITICAL" -> 4
      [] OTHER -> 0

HighestLevel(ls) ==
    CHOOSE l \in ls : \A m \in ls : LevelRank(m) <= LevelRank(l)

\* the three category results carry a risk level each
CategoriesLevelled(c) ==
    /\ "risk_level" \in DOMAIN c.sanctions_screening
    /\ "risk_level" \in DOMAIN c.enforcement_actions
    /\ "risk_level" \in DOMAIN c.jurisdiction_analysis

CategoryLevels(c) ==
    { c.sanctions_screening.risk_level, c.enforcement_actions.risk_level,
      c.jurisdiction_analysis.risk_level }

OverallDone == fn.op = "_calculate_overall_risk_level" /\ fn.done
MatchDone == fn.op = "_match_against_sanctions_list" /\ fn.done
CryptoDone == fn.op = "_check_crypto_specific_sanctions" /\ fn.done

\* C1: for every combination of levels of the three category results,
\* _calculate_overall_risk_level returns the highest of the three under
\* LOW < MEDIUM < HIGH < CRITICAL.
C1_OverallIsHighestCategory ==
    (OverallDone /\ CategoriesLevelled(fn.compliance_results)) =>
        fn.out = HighestLevel(CategoryLevels(fn.compliance_results))

\* a call where CRITICAL and HIGH are both present and CRITICAL came out
C1_Witness ==
    /\ OverallDone
    /\ CategoriesLevelled(fn.compliance_results)
    /\ fn.compliance_results.sanctions_screening.risk_level = "LOW"
    /\ fn.compliance_results.enforcement_actions.risk_level = "CRITICAL"
    /\ fn.compliance_results.jurisdiction_analysis.risk_level = "HIGH"
    /\ fn.out = "CRITICAL"

\* what the request last served asked for
RequestAction == DictGet(request, "action", "full_compliance_check")
RequestTarget == DictGet(request, "target", << >>)
RequestAffiliated ==
    DictGet(DictGet(request, "parameters", EmptyDict),
            "affiliated_entities", << >>)

\* a request with a usable target has been dispatched to the handler
Served(action) ==
    /\ request # NoRequest
    /\ RequestAction = action
    /\ RequestTarget # << >>
    /\ RequestTarget # NoneValue

\* C2: in a full_compliance_check with affiliated entities the report is
\* delivered and its overall_risk_level is at least the risk level of the
\* sanctions screening of every affiliated entity.
C2_OverallCoversAffiliates ==
    (Served("full_compliance_check") /\ Len(RequestAffiliated) > 0) =>
        /\ handler_ret.success
        /\ Len(screenings) = 1 + Len(RequestAffiliated)
        /\ \A i \in 2..Len(screenings) :
               LevelRank(handler_ret.data.overall_risk_level)
                   >= LevelRank(screenings[i].risk_level)

\* the screening-level rule, applied to a list of match dicts
LevelOfMatches(matches) ==
    IF \E i \in 1..Len(matches) : matches[i].risk_level = "HIGH"
    THEN "CRITICAL"
    ELSE IF \E i \in 1..Len(matches) : matches[i].risk_level = "MEDIUM"
    THEN "HIGH"
    ELSE IF Len(matches) > 0 THEN "MEDIUM"
    ELSE "LOW"

\* C3: in every screening result the risk_level is the one the rule gives
\* for the matches list of that same result, crypto matches included.
C3_RiskLevelFollowsMatches ==
    \A i \in 1..Len(screenings) :
        screenings[i].risk_level = LevelOfMatches(screenings[i].matches)

\* the names of the entities every source list serves
WatchlistNames ==
    { mock_data(0).entities[k].name : k \in 1..Len(mock_data(0).entities) }

\* C4: a sanctions_screening request whose target is the name of a
\* watchlist entity returns success with an exact match for that entity
\* and risk_level CRITICAL.
C4_ExactNameIsCritical ==
    (Served("sanctions_screening") /\ RequestTarget \in WatchlistNames) =>
        /\ handler_ret.success
        /\ handler_ret.data.risk_level = "CRITICAL"
        /\ \E i \in 1..Len(handler_ret.data.matches) :
               /\ handler_ret.data.matches[i].match_type = "exact"
               /\ handler_ret.data.matches[i].entity_name = RequestTarget

\* the entities of the list handed to the matcher, and the matches of the
\* output that were made for entity e
FnEntities == DictGet(fn.sanctions_data, "entities", << >>)
Occurrences(e, es) == Cardinality({k \in 1..Len(es) : es[k] = e})
MatchesFor(e, out) == {i \in 1..Len(out) : out[i].details = e}

\* C5: a candidate whose lower-cased name equals the lower-cased target
\* gets exactly one match per occurrence in the list, and that match is
\* exact with score 1.0 and risk HIGH, never fuzzy.
C5_EqualNamesMatchExactly ==
    MatchDone =>
        \A k \in 1..Len(FnEntities) :
            Lower(FnEntities[k].name) = Lower(fn.target) =>
                /\ Cardinality(MatchesFor(FnEntities[k], fn.out))
                       = Occurrences(FnEntities[k], FnEntities)
                /\ \A i \in MatchesFor(FnEntities[k], fn.out) :
                       /\ fn.out[i].match_type = "exact"
                       /\ fn.out[i].match_score = [num |-> 1, den |-> 1]
                       /\ fn.out[i].risk_level = "HIGH"

\* a target that differs from the stored name in case only was matched
C5_Witness ==
    /\ MatchDone
    /\ Len(FnEntities) = 1
    /\ FnEntities[1].name # fn.target
    /\ Lower(FnEntities[1].name) = Lower(fn.target)
    /\ Len(fn.out) = 1
    /\ fn.out[1].match_type = "exact"

\* the characters of t that occur in n, counted with their repetitions
Overlap(t, n) ==
    Cardinality({i \in 1..Len(t) : \E j \in 1..Len(n) : n[j] = t[i]})

\* the similarity of t to n is strictly greater than a / b
SimilarityAbove(t, n, a, b) ==
    /\ Len(t) > 0
    /\ Len(n) > 0
    /\ Overlap(t, n) * b > a * (IF Len(t) >= Len(n) THEN Len(t) ELSE Len(n))

EitherContains(t, n) == IsSubstring(t, n) \/ IsSubstring(n, t)

\* C6: for a candidate whose lower-cased name differs from the lower-cased
\* target, a fuzzy match is emitted iff one string contains the other and
\* the similarity is strictly above 0.8; its risk is MEDIUM when the
\* similarity is strictly above 0.9 and LOW otherwise, never HIGH.
C6_FuzzyRule ==
    MatchDone =>
        \A k \in 1..Len(FnEntities) :
            Lower(FnEntities[k].name) # Lower(fn.target) =>
                /\ (MatchesFor(FnEntities[k], fn.out) # {})
                       <=> /\ EitherContains(Lower(fn.target),
                                             Lower(FnEntities[k].name))
                           /\ SimilarityAbove(Lower(fn.target),
                                              Lower(FnEntities[k].name), 8, 10)
                /\ Cardinality(MatchesFor(FnEntities[k], fn.out))
                       \in {0, Occurrences(FnEntities[k], FnEntities)}
                /\ \A i \in MatchesFor(FnEntities[k], fn.out) :
                       /\ fn.out[i].match_type = "fuzzy"
                       /\ fn.out[i].risk_level # "HIGH"
                       /\ fn.out[i].risk_level =
                              IF SimilarityAbove(Lower(fn.target),
                                     Lower(FnEntities[k].name), 9, 10)
                              THEN "MEDIUM" ELSE "LOW"

\* a similarity of exactly 0.9 gave a fuzzy match of risk LOW
C6_Witness ==
    /\ MatchDone
    /\ Len(fn.target) = 9
    /\ Len(FnEntities) = 1
    /\ FnEntities[1].name = Rep("a", 10)
    /\ Len(fn.out) = 1
    /\ fn.out[1].match_type = "fuzzy"
    /\ fn.out[1].match_score = [num |-> 9, den |-> 10]
    /\ fn.out[1].risk_level = "LOW"

\* neither string contains the other and the similarity is at most 0.8
Unrelated(t, n) ==
    /\ ~ EitherContains(Lower(t), Lower(n))
    /\ ~ SimilarityAbove(Lower(t), Lower(n), 8, 10)

ContainsService(t) ==
    \E n \in 1..Len(crypto_sanctions) :
        IsSubstring(crypto_sanctions[n], Lower(t))

\* C7: a target unrelated to every watchlist name (and naming no
\* denylisted service) is screened successfully, with zero matches and
\* risk_level LOW.
C7_UnrelatedTargetIsLow ==
    (/\ Served("sanctions_screening")
     /\ \A n \in WatchlistNames : Unrelated(RequestTarget, n)
     /\ ~ ContainsService(RequestTarget)) =>
        /\ handler_ret.success
        /\ handler_ret.data.matches = << >>
        /\ handler_ret.data.risk_level = "LOW"

\* C8: a target equal, lower-cased, to an alias of an entity produces a
\* match for that entity.
C8_AliasMatches ==
    MatchDone =>
        \A k \in 1..Len(FnEntities) :
            \A a \in 1..Len(FnEntities[k].aliases) :
                Lower(FnEntities[k].aliases[a]) = Lower(fn.target) =>
                    MatchesFor(FnEntities[k], fn.out) # {}

\* C9, as the code has it: normalization is lower-casing alone; two
\* targets that differ in letter case only get the same matches from the
\* matcher and from the crypto pass.
C9_CaseIsIgnored ==
    /\ MatchDone =>
           \A t \in MatchTargets :
               Lower(t) = Lower(fn.target) =>
                   _match_against_sanctions_list(t, fn.sanctions_data,
                                                 fn.list_name) = fn.out
    /\ CryptoDone =>
           \A t \in CryptoTargets :
               Lower(t) = Lower(fn.target) =>
                   _check_crypto_specific_sanctions(t) = fn.out

\* an upper-case target was matched, and there is a lower-case one to
\* compare it with
C9_Witness ==
    /\ MatchDone
    /\ fn.target = <<"A","B">>
    /\ <<"a","b">> \in MatchTargets
    /\ Len(fn.out) = 1
    /\ fn.out[1].match_type = "exact"

\* C9, as stated: two targets that differ only in letter case or in
\* leading and trailing blanks get the same matches.
C9_CaseAndBlanksAreIgnored ==
    /\ MatchDone =>
           \A t \in MatchTargets :
               Strip(Lower(t)) = Strip(Lower(fn.target)) =>
                   _match_against_sanctions_list(t, fn.sanctions_data,
                                                 fn.list_name) = fn.out
    /\ CryptoDone =>
           \A t \in CryptoTargets :
               Strip(Lower(t)) = Strip(Lower(fn.target)) =>
                   _check_crypto_specific_sanctions(t) = fn.out

\* the match the crypto pass is to return for a denylisted service
IsCryptoMatch(m, service) ==
    /\ m.entity_name = service
    /\ m.match_type = "exact"
    /\ m.match_score = [num |-> 1, den |-> 1]
    /\ m.risk_level = "HIGH"
    /\ m.sanctions_list = "OFAC_CRYPTO"

\* C10: sanctions_screening returns an OFAC_CRYPTO match (exact, 1.0, HIGH)
\* for a denylisted service iff the lower-cased target contains its name.
C10_ScreeningReturnsCryptoMatches ==
    Served("sanctions_screening") =>
        \A n \in 1..Len(crypto_sanctions) :
            IsSubstring(crypto_sanctions[n], Lower(RequestTarget))
                <=> /\ handler_ret.success
                    /\ \E i \in 1..Len(handler_ret.data.matches) :
                           IsCryptoMatch(handler_ret.data.matches[i],
                                         crypto_sanctions[n])

ScreeningDone == fn.op = "_sanctions_screening" /\ fn.done
EnforcementDone == fn.op = "_enforcement_action_check" /\ fn.done

\* the sanctions lists that fail in the screening called: those whose
\* cached value is unusable, and every list when the target is no str
FailingLists == IF fn.target = NoneValue THEN ListNames ELSE DOMAIN fn.cache

\* the agencies that fail in the enforcement check called: the search
\* raises for every agency when the target is no str, and for none otherwise
AgencyNames == { enforcement_sources[n] : n \in 1..Len(enforcement_sources) }
FailingAgencies == IF fn.target = NoneValue THEN AgencyNames ELSE {}

SeqRange(q) == { q[i] : i \in 1..Len(q) }

InvalidTarget(req) ==
    /\ IsDict(req)
    /\ req # NoRequest
    /\ DictGet(req, "target", << >>) \in { << >>, NoneValue }

ValidRequest(req) ==
    /\ IsDict(req)
    /\ req # NoRequest
    /\ ~ InvalidTarget(req)

\* the step serves a request and touches neither handler nor cache
NothingRan ==
    /\ handler_ret' = NoHandler
    /\ screenings' = << >>
    /\ sanctions_cache' = sanctions_cache
    /\ cache_expiry' = cache_expiry

\* C13: a request whose target is empty, missing or no str is answered
\* with success=false, whatever its action, and no handler, fetch or
\* matching has run for it.
C13_ValidationPrecedesDispatch ==
    [][ (now' = now /\ InvalidTarget(request')) =>
            /\ ~ response'.success
            /\ NothingRan
            /\ response'.metadata = [error |-> "Invalid or empty target"] ]_vars

\* an unknown action with a target that is no str was rejected for its
\* target, after an earlier request had filled the cache
C13_Witness ==
    /\ request = [action |-> "bogus_action", target |-> NoneValue]
    /\ ~ response.success
    /\ response.metadata = [error |-> "Invalid or empty target"]
    /\ handler_ret = NoHandler
    /\ DOMAIN sanctions_cache = ListNames

SupportedActions ==
    { "full_compliance_check", "sanctions_screening", "enforcement_check",
      "jurisdiction_analysis", "entity_resolution", "risk_assessment" }

\* what the handler of the action of req returns in the agent state given
OwnHandler(req, cache, expiry, t) ==
    LET action == DictGet(req, "action", "full_compliance_check")
        target == DictGet(req, "target", << >>)
        parameters == DictGet(req, "parameters", EmptyDict)
    IN  CASE action = "full_compliance_check" ->
                 _full_compliance_check(target, parameters, cache, expiry,
                                        t).ret
          [] action = "sanctions_screening" ->
                 _sanctions_screening(target, cache, expiry, t).ret
          [] action = "enforcement_check" ->
                 _enforcement_action_check(target)
          [] action = "jurisdiction_analysis" ->
                 _jurisdiction_analysis(target)
          [] action = "entity_resolution" -> _entity_resolution(target)
          [] action = "risk_assessment" ->
                 _risk_assessment(target, parameters, cache, expiry, t).ret

\* C14: with a valid target, an action outside the supported set is
\* answered with success=false and 'Unsupported action' and runs nothing;
\* a supported action is answered by its own handler.
C14_DispatchByAction ==
    [][ (now' = now /\ ValidRequest(request')) =>
            IF DictGet(request', "action", "full_compliance_check")
                   \notin SupportedActions
            THEN /\ ~ response'.success
                 /\ response'.metadata = [error |-> "Unsupported action"]
                 /\ NothingRan
            ELSE /\ handler_ret' = OwnHandler(request', sanctions_cache,
                                              cache_expiry, now)
                 /\ response'.success = handler_ret'.success
                 /\ response'.content = handler_ret'.content ]_vars

\* an unknown action with a usable target was rejected at dispatch
C14_Witness ==
    /\ request = [action |-> "bogus_action", target |-> Uniswap]
    /\ ~ response.success
    /\ response.metadata = [error |-> "Unsupported action"]
    /\ handler_ret = NoHandler

\* C15: whatever the request and whatever fails, process_request returns
\* an AgentResponse, with success=false and an error in the metadata on
\* failure.
C15_AlwaysAnAgentResponse ==
    request # NoRequest =>
        /\ response.agent_type = "ComplianceCheckerAgent"
        /\ response.success \in BOOLEAN
        /\ (~ response.success) => "error" \in DOMAIN response.metadata

\* a request that is no dict was answered from the outer except clause
C15_Witness ==
    /\ request = NotADict
    /\ ~ response.success
    /\ response.content = "Error processing compliance request"
    /\ "error" \in DOMAIN response.metadata

\* every affiliated entity of the request is a str
AffiliatedAreStr ==
    \A i \in 1..Len(RequestAffiliated) : RequestAffiliated[i] # NoneValue

\* every sanctions list failed in every screening of the request
AllSourcesFailed ==
    /\ Len(screenings) > 0
    /\ \A i \in 1..Len(screenings) : screenings[i].errors = ListNames

\* C16: a full_compliance_check reports success=false only when all
\* sources failed; the failure of one step alone does not fail it.
C16_FullCheckFailsOnlyOnTotalFailure ==
    (/\ Served("full_compliance_check")
     /\ IsDict(DictGet(request, "parameters", EmptyDict))
     /\ AffiliatedAreStr) =>
        ((~ handler_ret.success) => AllSourcesFailed)

EnforcementRiskDone == fn.op = "_calculate_enforcement_risk_level" /\ fn.done

HasSeverity(actions, v) == \E i \in 1..Len(actions) : actions[i].severity = v

\* one more action of severity HIGH
OneMoreHigh(actions) == Append(actions, [actions[1] EXCEPT !.severity = "HIGH"])

\* C17: _calculate_enforcement_risk_level returns HIGH if any action has
\* severity HIGH, else MEDIUM if any has severity MEDIUM, else LOW; it
\* never returns CRITICAL, and one more HIGH action never lowers the level.
C17_EnforcementLevelRule ==
    EnforcementRiskDone =>
        /\ fn.out = IF HasSeverity(fn.actions, "HIGH") THEN "HIGH"
                    ELSE IF HasSeverity(fn.actions, "MEDIUM") THEN "MEDIUM"
                    ELSE "LOW"
        /\ fn.out # "CRITICAL"
        /\ Len(fn.actions) > 0 =>
               LevelRank(_calculate_enforcement_risk_level(
                             OneMoreHigh(fn.actions))) >= LevelRank(fn.out)

\* a list with a MEDIUM action before a HIGH one came out HIGH
C17_Witness ==
    /\ EnforcementRiskDone
    /\ Len(fn.actions) = 2
    /\ fn.actions[1].severity = "MEDIUM"
    /\ fn.actions[2].severity = "HIGH"
    /\ fn.out = "HIGH"

RecommendationsDone ==
    fn.op = "_generate_compliance_recommendations" /\ fn.done

LegalReviewPair ==
    << "Immediate legal review required",
       "Consider enhanced due diligence procedures" >>
SanctionsPair ==
    << "Review sanctions matches with compliance officer",
       "Implement sanctions screening procedures" >>
EnforcementPair ==
    << "Monitor ongoing enforcement developments",
       "Consider regulatory engagement strategy" >>
StandingPair ==
    << "Implement continuous monitoring system",
       "Document compliance procedures and decisions" >>

\* the pair when the rule applies, nothing otherwise
When(applies, pair) == IF applies THEN pair ELSE << >>

HasEntries(d, key) == key \in DOMAIN d /\ Len(d[key]) > 0

\* C18: the recommendations are the legal-review pair iff the overall
\* level is HIGH or CRITICAL, then the sanctions pair iff the matches list
\* is non-empty, then the enforcement pair iff the actions list is
\* non-empty, then the standing pair, in this order and nothing else.
C18_RecommendationRules ==
    RecommendationsDone =>
        fn.out =
            When(fn.compliance_results.overall_risk_level
                     \in {"HIGH", "CRITICAL"}, LegalReviewPair)
            \o When(HasEntries(fn.compliance_results.sanctions_screening,
                               "matches"), SanctionsPair)
            \o When(HasEntries(fn.compliance_results.enforcement_actions,
                               "actions"), EnforcementPair)
            \o StandingPair

\* all four pairs were emitted, for a CRITICAL result with matches and
\* actions
C18_Witness ==
    /\ RecommendationsDone
    /\ fn.compliance_results.overall_risk_level = "CRITICAL"
    /\ HasEntries(fn.compliance_results.sanctions_screening, "matches")
    /\ HasEntries(fn.compliance_results.enforcement_actions, "actions")
    /\ Len(fn.out) = 8
    /\ fn.out[1] = LegalReviewPair[1]
    /\ fn.out[8] = StandingPair[2]

\* the step in which _store_entities commits
Committing == db.conn.pc = "insert" /\ db'.conn.pc = "idle"

UidsUniqueWithin(entities) ==
    \A i, j \in 1..Len(entities) : entities[i].uid = entities[j].uid => i = j

RowsOf(table, source) == { r \in table : r.source_list = source }

\* get_statistics().entities_by_source[source]; no key when it has no row
EntitiesBySource(table, source) ==
    IF source \in DOMAIN by_source(table) THEN by_source(table)[source] ELSE 0

OtherSourcesUntouched(old, new, source_name) ==
    \A T \in SourceNames \ {source_name} :
        /\ RowsOf(new, T) = RowsOf(old, T)
        /\ EntitiesBySource(new, T) = EntitiesBySource(old, T)

\* no uid of the list is held by a row of another source
UidsFreeElsewhere(table, entities, source_name) ==
    \A i \in 1..Len(entities) : \A r \in table :
        r.uid = entities[i].uid => r.source_list = source_name

SeqToSet(entities) == { entities[i] : i \in 1..Len(entities) }

\* the table with the complete new set of source_name
Replaced(table, entities, source_name) ==
    { r \in table : /\ r.source_list # source_name
                    /\ \A e \in SeqToSet(entities) : e.uid # r.uid }
    \cup SeqToSet(entities)

\* what the reading call that has just run saw is what it would see in
\* one of the tables
SeenIn(reader, tables) ==
    \E table \in tables :
        CASE reader.op = "get_entity_by_uid" ->
               reader.out = SelectByUid(table, reader.uid)
          [] reader.op = "get_statistics" /\ reader.pc = "by_source" ->
               reader.total_entities = Cardinality(table)
          [] reader.op = "get_statistics" /\ reader.pc = "by_type" ->
               reader.entities_by_source = by_source(table)
          [] reader.op = "get_statistics" /\ reader.pc = "done" ->
               reader.entities_by_type = by_type(table)
          [] OTHER -> reader.out.exc = "OperationalError"

FullyReplaced(table, entities, source_name, stored_count) ==
    /\ RowsOf(table, source_name) = SeqToSet(entities)
    /\ EntitiesBySource(table, source_name) = Len(entities)
    /\ stored_count = Len(entities)

FirstScreening(target) == _sanctions_screening(target, EmptyDict, EmptyDict, 0)

SameFindings(a, b) ==
    /\ a.matches = b.matches
    /\ Len(a.matches) = Len(b.matches)
    /\ a.risk_level = b.risk_level

\* C22: whatever was served before and whatever the cache holds, a
\* sanctions_screening call gives what the first call of a fresh agent
\* gives for the same target: the same returned dict, the same matches
\* (content and count) and the same risk level; so any two calls for one
\* target agree.
C22_ScreeningIsIdempotent ==
    Served("sanctions_screening") =>
        /\ handler_ret = FirstScreening(RequestTarget).ret
        /\ Len(screenings) = 1
        /\ SameFindings(screenings[1], FirstScreening(RequestTarget).built)

\* a screening with matches was served from cache entries that an earlier
\* request had stored
C22_Witness ==
    /\ Served("sanctions_screening")
    /\ RequestTarget = SampleName
    /\ Len(screenings) = 1
    /\ Len(screenings[1].matches) > 0
    /\ \A i \in 1..Len(sanctions_sources) :
          /\ sanctions_sources[i] \in DOMAIN cache_expiry
          /\ cache_expiry[sanctions_sources[i]] < now + cache_duration
          /\ now < cache_expiry[sanctions_sources[i]]

\* one entry, tagged with its tier, for each (tier, country code) pair of
\* the table
TableEntries ==
    UNION { { [jurisdiction |-> c, risk_level |-> restricted_jurisdictions[n].tier] :
                 c \in SeqRange(restricted_jurisdictions[n].codes) } :
            n \in 1..Len(restricted_jurisdictions) }

\* C23: a jurisdiction_analysis request returns, for every target, a
\* restricted_jurisdictions list with one entry, tagged with its tier, for
\* each (tier, country code) pair of the table.
C23_EveryTableEntryIsFlagged ==
    Served("jurisdiction_analysis") =>
        /\ handler_ret.success
        /\ SeqRange(handler_ret.data.restricted_jurisdictions) = TableEntries
        /\ Len(handler_ret.data.restricted_jurisdictions)
              = Cardinality(TableEntries)

\* C24: in every screening result, lists_checked holds exactly the
\* sanctions lists whose check completed without error: no list is both in
\* lists_checked and under a '<list>_error' key, and every configured list
\* is in one of the two.
C24_CheckedListsHadNoError ==
    \A i \in 1..Len(screenings) :
        /\ SeqRange(screenings[i].lists_checked) \cap screenings[i].errors = { }
        /\ SeqRange(screenings[i].lists_checked) \cup screenings[i].errors
               = SeqRange(sanctions_sources)

\* C25: the report of a full_compliance_check with affiliated names holds
\* one sub-result per name, in input order, each with that name and a
\* risk level, and each name went through one sanctions screening and
\* nothing else.
C25_OneSubResultPerAffiliate ==
    (Served("full_compliance_check") /\ Len(RequestAffiliated) > 0) =>
        /\ handler_ret.success
        /\ Len(handler_ret.data.affiliated_entities) = Len(RequestAffiliated)
        /\ \A i \in 1..Len(RequestAffiliated) :
              /\ handler_ret.data.affiliated_entities[i].name
                     = RequestAffiliated[i]
              /\ handler_ret.data.affiliated_entities[i].risk_level
                     \in Levels
              /\ screenings[1 + i].target = RequestAffiliated[i]
        /\ Len(screenings) = 1 + Len(RequestAffiliated)

SimilarityDone == fn.op = "_calculate_similarity" /\ fn.done

\* the positions of a whose character occurs somewhere in b
SharedPositions(a, b) == { i \in 1..Len(a) : a[i] \in SeqRange(b) }

\* the float s equals n / d
ScoreIs(s, n, d) == s.num * d = n * s.den /\ s.den > 0

\* the matches _match_against_sanctions_list emitted carry a score within
\* [0.0, 1.0]
EmittedScoresInRange ==
    MatchDone =>
        \A i \in 1..Len(fn.out) :
            /\ fn.out[i].match_score.den > 0
            /\ 0 <= fn.out[i].match_score.num
            /\ fn.out[i].match_score.num <= fn.out[i].match_score.den

GetSanctionsDataDone == fn.op = "_get_sanctions_data" /\ fn.done

\* the list is cached and the call comes strictly before its expiry
StillCached ==
    /\ fn.list_name \in DOMAIN fn.cache
    /\ fn.t < fn.expiry[fn.list_name]

\* C30: a _get_sanctions_data call leaves sanctions_cache and cache_expiry
\* with the same keys; strictly before the expiry of the list it returns
\* the cached value and changes neither dict; otherwise it returns fresh
\* data and stores it with expiry now + cache_duration; the entries of the
\* other lists stay as they were.
C30_CacheStaysConsistent ==
    GetSanctionsDataDone =>
        /\ DOMAIN fn.out.cache = DOMAIN fn.out.expiry
        /\ StillCached =>
              /\ fn.out.data = fn.cache[fn.list_name]
              /\ fn.out.cache = fn.cache
              /\ fn.out.expiry = fn.expiry
        /\ ~ StillCached =>
              /\ fn.out.data.last_updated = fn.t
              /\ fn.out.cache[fn.list_name] = fn.out.data
              /\ fn.out.expiry[fn.list_name] = fn.t + cache_duration
        /\ DOMAIN fn.out.cache = DOMAIN fn.cache \cup {fn.list_name}
        /\ \A l \in DOMAIN fn.cache \ {fn.list_name} :
              /\ fn.out.cache[l] = fn.cache[l]
              /\ fn.out.expiry[l] = fn.expiry[l]

\* a call at the very second of the expiry fetched fresh data, next to
\* another cached list
C30_Witness ==
    /\ GetSanctionsDataDone
    /\ fn.list_name \in DOMAIN fn.cache
    /\ DOMAIN fn.cache # {fn.list_name}
    /\ fn.t = fn.expiry[fn.list_name]
    /\ fn.out.expiry[fn.list_name] = fn.t + cache_duration
    /\ fn.out.data.last_updated = fn.t

\* a step of update_all_sources
Updating == manager'.called /\ manager'.clock = manager.clock

SourceOf(S) == CHOOSE i \in 1..Len(data_sources) : data_sources[i].name = S

\* the call of this step has updated S: it was forced, or S was due
Attempted(S) ==
    \/ manager'.force_update
    \/ S \notin DOMAIN manager.last_update_check
    \/ manager.clock - manager.last_update_check[S]
           > data_sources[SourceOf(S)].update_frequency

\* the list of S was fetched, and it was parsed
Fetched(S) == manager'.downloads[S].status = 200
FetchedAndParsed(S) == Fetched(S) /\ manager'.downloads[S].content # Unparseable

\* the result of the update of S itself
OwnResult(S) ==
    IF Fetched(S)
    THEN [success |-> TRUE,
          entities_count |-> IF FetchedAndParsed(S)
                             THEN Len(manager'.downloads[S].content) ELSE 0]
    ELSE [success |-> FALSE, error |-> "HTTP 500"]

\* C27: update_all_sources returns, under the name of each source it
\* updated, the result of the update of that source, and no entry for a
\* source it skipped as fresh.
C27_ResultsGoToTheirSource ==
    [][Updating =>
         \A S \in DataSourceNames :
            /\ S \in DOMAIN manager'.results <=> Attempted(S)
            /\ Attempted(S) => manager'.results[S] = OwnResult(S)]_vars

\* C28: the stored entities of a source change only in an update that
\* fetched and parsed the list of that source; an HTTP error or a text
\* that cannot be parsed leaves them as they were.
C28_FailedUpdateKeepsEntities ==
    [][\A S \in DataSourceNames :
          RowsOf(db'.committed, S) # RowsOf(db.committed, S)
             => Updating /\ Attempted(S) /\ FetchedAndParsed(S)]_vars

LastUpdateOf(m, S) ==
    IF S \in DOMAIN m.last_update_check THEN m.last_update_check[S] ELSE -1

\* C29: last_update_check[S] is set only by an update of S that fetched
\* and parsed its list, to the time of that update; and a source that was
\* due and whose update failed is due again for the next call.
C29_OnlySuccessSetsLastUpdate ==
    [][\A S \in DataSourceNames :
          /\ LastUpdateOf(manager', S) # LastUpdateOf(manager, S)
                => /\ Updating /\ Attempted(S) /\ FetchedAndParsed(S)
                   /\ LastUpdateOf(manager', S) = manager.clock
          /\ (Updating /\ Attempted(S) /\ ~ manager'.force_update
                /\ ~ FetchedAndParsed(S))
                => _needs_update(manager'.last_update_check, S,
                                 data_sources[SourceOf(S)].update_frequency,
                                 manager'.clock)]_vars

====
